---- MODULE Spec2Model ----
(***************************************************************************)
(* Model of the fault-detection rules of ashrae-guideline-36-fdd.          *)
(*                                                                         *)
(*  - FaultConditionFour.apply (operating-mode classifier and hourly       *)
(*    state-change counter), air_handling_unit/faults/fault_condition_four *)
(*  - fault_condition_two_ / fault_condition_three_ (mixed-air temperature *)
(*    threshold rules) and the script around them, fc2_3.py                *)
(*                                                                         *)
(* Analog signals are fractions in [0.0, 1.0]; they are held in tenths     *)
(* (0 = 0.0, 5 = 0.5, 10 = 1.0), so astype(int) is division by 10.         *)
(* A timestamp is held as the number of the hour it falls in; rows of one  *)
(* hour are in table order. NaN is a value of its own: every comparison    *)
(* with it is false and arithmetic on it gives NaN.                        *)
(***************************************************************************)
EXTENDS Integers, Sequences, FiniteSets, TLC

VARIABLES df, cfg, result, pc, err, df_in, workers, dict_, hooked,
          df23, thres, df2, pc23, brick, report

vars == <<df, cfg, result, pc, err, df_in, workers, dict_, hooked,
          df23, thres, df2, pc23, brick, report>>
fc4vars == <<df, cfg, result, pc, err, df_in, workers, dict_, hooked>>
fc23vars == <<df23, thres, df2, pc23>>

(***************************************************************************)
(* Bounds and input sets                                                   *)
(***************************************************************************)
\* largest number of rows of a table whose rows range over every signal value
MaxRows == 1

\* largest number of rows of a table given to the hourly counter
MaxHourlyRows == 3

\* hours the timestamps of a table fall in
Hours == 0 .. 1

\* values of an analog column, in tenths: 0.0, 0.5, 1.0
SignalVals == {0, 5, 10}

\* configurations of the rule
MinOaDprVals == {0, 5, 10}
DeltaOsMaxVals == {0, 1}

(***************************************************************************)
(* Floating-point values                                                   *)
(***************************************************************************)
\* float('nan'); every other value of the model is 0 or more
NaN == 0 - 1

\* a > b, a == b on floats: False when either side is NaN
Gt(a, b) == a # NaN /\ b # NaN /\ a > b

Lt(a, b) == a # NaN /\ b # NaN /\ a < b

Eq(a, b) == a # NaN /\ b # NaN /\ a = b

Ge(a, b) == a # NaN /\ b # NaN /\ a >= b

\* a + b, a - b on floats
Plus(a, b) == IF a = NaN \/ b = NaN THEN NaN ELSE a + b

Minus(a, b) == IF a = NaN \/ b = NaN THEN NaN ELSE a - b

(***************************************************************************)
(* Column names                                                            *)
(***************************************************************************)
economizer_sig_col == "economizer_sig"
heating_sig_col == "heating_sig"
cooling_sig_col == "cooling_sig"
supply_vfd_speed_col == "supply_vfd_speed"

\* the columns the rule is configured with
SignalCols ==
    {economizer_sig_col, heating_sig_col, cooling_sig_col, supply_vfd_speed_col}

\* columns_to_check without the supply fan speed column
columns_to_check_NoFan ==
    <<economizer_sig_col, heating_sig_col, cooling_sig_col>>

\* the columns apply validates, in the order it validates them
columns_to_check ==
    <<economizer_sig_col, heating_sig_col, cooling_sig_col, supply_vfd_speed_col>>

ModeNames ==
    {"heating_mode", "econ_only_cooling_mode",
     "econ_plus_mech_cooling_mode", "mech_cooling_only_mode"}

(***************************************************************************)
(* Tables: an index (one hour number per row), named columns, each a       *)
(* sequence with one value per row, and the names of the columns whose     *)
(* dtype is integer (the others are float64, or bool for the mode columns).*)
(***************************************************************************)
NRows(t) == Len(t.index)

EmptyTable ==
    [index |-> <<>>, cols |-> [c \in SignalCols |-> <<>>], ints |-> {}]

NoResult == [index |-> <<>>, cols |-> <<>>]

\* df[name] = values : the column is replaced, or appended when it is new
SetColumn(t, name, values) ==
    [index |-> t.index,
     cols |-> [c \in (DOMAIN t.cols) \cup {name} |->
                 IF c = name THEN values ELSE t.cols[c]],
     ints |-> t.ints \ {name}]

\* one more row read into the table
AppendRowTo(t, h, row) ==
    [index |-> Append(t.index, h),
     cols |-> [c \in DOMAIN t.cols |-> Append(t.cols[c], row[c])],
     ints |-> t.ints]

\* rows over every combination of signal values
SignalRows ==
    [economizer_sig : SignalVals, heating_sig : SignalVals,
     cooling_sig : SignalVals, supply_vfd_speed : SignalVals]

\* rows of a running unit (fan at full speed, valves and damper closed or half
\* open) and the row of a unit that is switched off
HourlyRows ==
    {r \in [economizer_sig : {0, 5}, heating_sig : {0, 5},
            cooling_sig : {0, 5}, supply_vfd_speed : {0, 10}] :
        r.supply_vfd_speed = 0 =>
            (r.economizer_sig = 0 /\ r.heating_sig = 0 /\ r.cooling_sig = 0)}

(***************************************************************************)
(* Operating-mode classifier                                               *)
(***************************************************************************)
\* heating_mode with the cooling test turned round (cooling > 0)
heating_mode_CoolingOn(t, c, i) ==
    /\ Gt(t.cols[heating_sig_col][i], 0)
    /\ Gt(t.cols[cooling_sig_col][i], 0)
    /\ Gt(t.cols[supply_vfd_speed_col][i], 0)
    /\ Eq(t.cols[economizer_sig_col][i], c.ahu_min_oa_dpr)

\* heating_mode with the damper test >= instead of ==
heating_mode_AtOrAboveMin(t, c, i) ==
    /\ Gt(t.cols[heating_sig_col][i], 0)
    /\ Eq(t.cols[cooling_sig_col][i], 0)
    /\ Gt(t.cols[supply_vfd_speed_col][i], 0)
    /\ Ge(t.cols[economizer_sig_col][i], c.ahu_min_oa_dpr)

\* AHU htg only mode: OA damper at min oa, only the heating valve modulating
heating_mode(t, c, i) ==
    /\ Gt(t.cols[heating_sig_col][i], 0)
    /\ Eq(t.cols[cooling_sig_col][i], 0)
    /\ Gt(t.cols[supply_vfd_speed_col][i], 0)
    /\ Eq(t.cols[economizer_sig_col][i], c.ahu_min_oa_dpr)

\* econ_only_cooling_mode without the test of the supply fan
econ_only_cooling_mode_NoFan(t, c, i) ==
    /\ Eq(t.cols[heating_sig_col][i], 0)
    /\ Eq(t.cols[cooling_sig_col][i], 0)
    /\ Gt(t.cols[economizer_sig_col][i], c.ahu_min_oa_dpr)

\* AHU econ only mode: OA damper modulating, clg and htg at zero
econ_only_cooling_mode(t, c, i) ==
    /\ Eq(t.cols[heating_sig_col][i], 0)
    /\ Eq(t.cols[cooling_sig_col][i], 0)
    /\ Gt(t.cols[supply_vfd_speed_col][i], 0)
    /\ Gt(t.cols[economizer_sig_col][i], c.ahu_min_oa_dpr)

\* AHU econ+mech clg mode: OA damper and cooling valve both modulating
econ_plus_mech_cooling_mode(t, c, i) ==
    /\ Eq(t.cols[heating_sig_col][i], 0)
    /\ Gt(t.cols[cooling_sig_col][i], 0)
    /\ Gt(t.cols[supply_vfd_speed_col][i], 0)
    /\ Gt(t.cols[economizer_sig_col][i], c.ahu_min_oa_dpr)

\* mech_cooling_only_mode with the damper test >= instead of ==
mech_cooling_only_mode_AtOrAboveMin(t, c, i) ==
    /\ Eq(t.cols[heating_sig_col][i], 0)
    /\ Gt(t.cols[cooling_sig_col][i], 0)
    /\ Gt(t.cols[supply_vfd_speed_col][i], 0)
    /\ Ge(t.cols[economizer_sig_col][i], c.ahu_min_oa_dpr)

\* AHU mech mode: OA damper at min OA, cooling valve modulating
mech_cooling_only_mode(t, c, i) ==
    /\ Eq(t.cols[heating_sig_col][i], 0)
    /\ Gt(t.cols[cooling_sig_col][i], 0)
    /\ Gt(t.cols[supply_vfd_speed_col][i], 0)
    /\ Eq(t.cols[economizer_sig_col][i], c.ahu_min_oa_dpr)

\* the table after the four assignments df["..._mode"] = ...
WithModes(t, c) ==
    LET n == NRows(t)
        t1 == SetColumn(t, "heating_mode",
                        [i \in 1 .. n |-> heating_mode(t, c, i)])
        t2 == SetColumn(t1, "econ_only_cooling_mode",
                        [i \in 1 .. n |-> econ_only_cooling_mode(t1, c, i)])
        t3 == SetColumn(t2, "econ_plus_mech_cooling_mode",
                        [i \in 1 .. n |-> econ_plus_mech_cooling_mode(t2, c, i)])
    IN  SetColumn(t3, "mech_cooling_only_mode",
                  [i \in 1 .. n |-> mech_cooling_only_mode(t3, c, i)])

(***************************************************************************)
(* Hourly state-change counter                                             *)
(***************************************************************************)
\* astype(int) of one value: a boolean becomes 0/1, a float is truncated
ToInt(name, v) ==
    IF name \in ModeNames THEN (IF v THEN 1 ELSE 0) ELSE v \div 10

\* df.astype(int): every column of the table is cast; a column that is
\* integer already keeps its values
AsTypeInt(t) ==
    [index |-> t.index,
     cols |-> [c \in DOMAIN t.cols |->
                 [i \in 1 .. NRows(t) |->
                    IF c \in t.ints THEN t.cols[c][i]
                    ELSE ToInt(c, t.cols[c][i])]],
     ints |-> DOMAIN t.cols]

\* the rows of hour h, in table order
RowsOfHour(t, h) == {i \in 1 .. NRows(t) : t.index[i] = h}

\* x.shift().ne(1) at row i of the bucket rows: the shift is taken inside the
\* bucket, so the bucket's first row has no predecessor (NaN, which is not 1)
ShiftNe1(x, rows, i) ==
    \/ (i - 1) \notin rows
    \/ x[i - 1] # 1

\* the count without the test of the row before: x.eq(1).sum()
RisingEdges_CountsOnes(x, rows) ==
    Cardinality({i \in rows : x[i] = 1})

\* lambda x: (x.eq(1) & x.shift().ne(1)).sum() on the rows of one bucket
RisingEdges(x, rows) ==
    Cardinality({i \in rows : x[i] = 1 /\ ShiftNe1(x, rows, i)})

\* the hourly buckets of resample("h"): first hour to last hour of the index
Buckets(t) ==
    IF NRows(t) = 0 THEN <<>>
    ELSE [k \in 1 .. (t.index[NRows(t)] - t.index[1] + 1) |-> t.index[1] + k - 1]

\* df.resample("h").apply(lambda ...): every column, every bucket
Resample(t) ==
    LET b == Buckets(t)
    IN  [index |-> b,
         cols |-> [c \in DOMAIN t.cols |->
                     [k \in 1 .. Len(b) |->
                        RisingEdges(t.cols[c], RowsOfHour(t, b[k]))]],
         ints |-> DOMAIN t.cols]

\* df[df.columns].gt(delta_os_max).any(axis=1).astype(int)
Fc4Flag(t, c) ==
    [k \in 1 .. NRows(t) |->
        IF \E col \in DOMAIN t.cols : t.cols[col][k] > c.delta_os_max
        THEN 1 ELSE 0]

\* the table apply returns
HourlyTable(t, c) ==
    LET hourly == Resample(AsTypeInt(t))
    IN  SetColumn(hourly, "fc4_flag", Fc4Flag(hourly, c))

(***************************************************************************)
(* Validation, diagnostics and the outcome of one call of apply            *)
(***************************************************************************)
\* troubleshoot_cols that fills the gaps of the table in place (fillna(0))
troubleshoot_cols_FillNa(t) ==
    [index |-> t.index,
     cols |-> [c \in DOMAIN t.cols |->
                 [i \in 1 .. NRows(t) |->
                    IF c \notin ModeNames /\ t.cols[c][i] = NaN
                    THEN 0 ELSE t.cols[c][i]]],
     ints |-> t.ints]

\* the diagnostics hook: reports on the columns, leaves the table as it is
troubleshoot_cols(t) == t

\* if self.troubleshoot_mode: self.troubleshoot_cols(df)
Diagnosed(t, c) == IF c.troubleshoot_mode THEN troubleshoot_cols(t) ELSE t

\* check_analog_pct(df, [col]): the error it ends with, or "none"
check_analog_pct(t, col) ==
    IF col \notin DOMAIN t.cols THEN "MissingColumnError"
    ELSE IF col \in t.ints THEN "InvalidSignalType"
    ELSE IF \E i \in 1 .. NRows(t) :
               Lt(t.cols[col][i], 0) \/ Gt(t.cols[col][i], 10)
         THEN "InvalidSignalRange"
    ELSE "none"

\* for col in columns_to_check: self.check_analog_pct(df, [col])
RECURSIVE FirstError(_, _)
FirstError(t, cols) ==
    IF cols = <<>> THEN "none"
    ELSE LET e == check_analog_pct(t, Head(cols))
         IN  IF e # "none" THEN e ELSE FirstError(t, Tail(cols))

\* some float column of the table holds a NaN
HasNaN(t) ==
    \E c \in (DOMAIN t.cols) \ ModeNames :
        \E i \in 1 .. NRows(t) : t.cols[c][i] = NaN

\* the caller's table cast to int in place (df[df.columns] = df.astype(int))
CallerTable_CastInPlace(t, c) ==
    LET m == WithModes(t, c)
    IN  [index |-> m.index,
         cols |-> [col \in DOMAIN m.cols |->
                     [i \in 1 .. NRows(m) |->
                        IF col \in ModeNames THEN m.cols[col][i]
                        ELSE 10 * (m.cols[col][i] \div 10)]],
         ints |-> (DOMAIN m.cols) \ ModeNames]

\* the signal columns dropped from the caller's table before the count
\* (df.drop(columns=..., inplace=True))
CallerTable_DropsSignals(t, c) ==
    LET m == WithModes(t, c)
    IN  [index |-> m.index,
         cols |-> [col \in (DOMAIN m.cols) \ SignalCols |-> m.cols[col]],
         ints |-> m.ints \ SignalCols]

\* the caller's table once the mode columns are assigned: df.astype(int) and
\* what follows work on a new table
CallerTable(t, c) == WithModes(t, c)

\* apply with the validation loop moved behind the mode assignments
ApplyOutcome_ChecksLast(t, c) ==
    LET t0 == Diagnosed(t, c)
        e == FirstError(t0, columns_to_check)
    IN  IF ~(SignalCols \subseteq DOMAIN t0.cols)
        THEN [df |-> t0, result |-> NoResult, err |-> "KeyError"]
        ELSE IF e # "none"
        THEN [df |-> CallerTable(t0, c), result |-> NoResult, err |-> e]
        ELSE IF HasNaN(t0)
        THEN [df |-> CallerTable(t0, c), result |-> NoResult, err |-> "ValueError"]
        ELSE [df |-> CallerTable(t0, c),
              result |-> HourlyTable(WithModes(t0, c), c), err |-> "none"]

\* apply(df) on table t: the caller's table afterwards, the table returned
\* and the exception raised ("none": apply returns).
\*   lines 29-30  diagnostics
\*   lines 42-43  validation of the four columns, in order
\*   lines 48-77  the mode columns; a column that is not there is a KeyError
\*   line 79      astype(int) raises ValueError on NaN in a float column
\*   lines 80-83  count, flag, return
ApplyOutcome(t, c) ==
    LET t0 == Diagnosed(t, c)
        e == FirstError(t0, columns_to_check)
    IN  IF e # "none"
        THEN [df |-> t0, result |-> NoResult, err |-> e]
        ELSE IF ~(SignalCols \subseteq DOMAIN t0.cols)
        THEN [df |-> t0, result |-> NoResult, err |-> "KeyError"]
        ELSE IF HasNaN(t0)
        THEN [df |-> CallerTable(t0, c), result |-> NoResult, err |-> "ValueError"]
        ELSE [df |-> CallerTable(t0, c),
              result |-> HourlyTable(WithModes(t0, c), c), err |-> "none"]

(***************************************************************************)
(* Operations of the FaultConditionFour rule                               *)
(***************************************************************************)
\* the caller reads one more row of sensor data; timestamps never decrease
ReadInto(rows, max) ==
    /\ pc = "loading"
    /\ NRows(df) < max
    /\ \E h \in Hours, row \in rows :
          /\ NRows(df) > 0 => h >= df.index[NRows(df)]
          /\ df' = AppendRowTo(df, h, row)
    /\ UNCHANGED <<cfg, result, pc, err, df_in, workers, dict_, hooked>>

ReadRow == ReadInto(SignalRows, MaxRows)

ReadHourlyRow == ReadInto(HourlyRows, MaxHourlyRows)

ReadCheckedRow == ReadInto(HourlyRows, MaxRows)

\* values a sensor gap (NaN) or a wrongly scaled signal (1.5) puts in a cell
BadVals == {NaN, 15}

\* the table without column col
DropColumn(t, col) ==
    [index |-> t.index,
     cols |-> [c \in (DOMAIN t.cols) \ {col} |-> t.cols[c]],
     ints |-> t.ints \ {col}]

\* the table with column col stored as whole numbers
IntColumn(t, col) ==
    [index |-> t.index,
     cols |-> [c \in DOMAIN t.cols |->
                 IF c = col
                 THEN [i \in 1 .. NRows(t) |-> 10 * (t.cols[c][i] \div 10)]
                 ELSE t.cols[c]],
     ints |-> t.ints \cup {col}]

\* the table with value v in row i of column col
SetCell(t, col, i, v) ==
    [index |-> t.index,
     cols |-> [c \in DOMAIN t.cols |->
                 IF c = col THEN [t.cols[c] EXCEPT ![i] = v] ELSE t.cols[c]],
     ints |-> t.ints]

\* the table the caller passes has one defect: a configured column is not
\* there, a column is integer-coded, or one cell is NaN or out of range
Damage ==
    /\ pc = "loading"
    /\ \E col \in SignalCols :
          \/ df' = DropColumn(df, col)
          \/ df' = IntColumn(df, col)
          \/ \E i \in 1 .. NRows(df), v \in BadVals : df' = SetCell(df, col, i, v)
    /\ pc' = "damaged"
    /\ UNCHANGED <<cfg, result, err, df_in, workers, dict_, hooked>>

\* FaultConditionFour.apply(df): the mode columns are written into the
\* caller's table, the hourly table is returned, or an exception ends the call
Apply ==
    /\ pc \in {"loading", "damaged", "extended"}
    /\ df_in' = df
    /\ \E o \in {ApplyOutcome(df, cfg)} :
          /\ df' = o.df
          /\ result' = o.result
          /\ err' = o.err
          /\ pc' = IF o.err = "none" THEN "done" ELSE "error"
    /\ hooked' = cfg.troubleshoot_mode
    /\ UNCHANGED <<cfg, workers, dict_>>

\* apply is called a second time, on the table the first call left
ReApply ==
    /\ pc = "done"
    /\ \E o \in {ApplyOutcome(df, cfg)} :
          /\ df' = o.df
          /\ result' = o.result
          /\ err' = o.err
          /\ pc' = IF o.err = "none" THEN "done2" ELSE "error"
    /\ hooked' = cfg.troubleshoot_mode
    /\ UNCHANGED <<cfg, df_in, workers, dict_>>

Configs(minvals, tsvals) ==
    [delta_os_max : DeltaOsMaxVals, ahu_min_oa_dpr : minvals,
     troubleshoot_mode : tsvals]

\* an attribute as __init__ declares it: bound to a type (float, str, bool)
TypeObject == [is_type |-> TRUE, value |-> 0]

\* an attribute bound to a value of the configuration
Value(v) == [is_type |-> FALSE, value |-> v]

\* the attributes after lines 17-23, before set_attributes
DeclaredAttributes ==
    [delta_os_max |-> TypeObject, ahu_min_oa_dpr |-> TypeObject,
     troubleshoot_mode |-> TypeObject]

\* set_attributes(dict_): every attribute that has an entry in the
\* configuration is overwritten with it
set_attributes(attrs, d) ==
    [a \in DOMAIN attrs |-> IF a \in DOMAIN d THEN Value(d[a]) ELSE attrs[a]]

\* what `if attribute:` sees: a type object is true
Truth(a) == IF a.is_type THEN TRUE ELSE a.value

\* FaultConditionFour(dict_): the thresholds of the instance, and under
\* troubleshoot_mode what `if self.troubleshoot_mode` sees
FaultConditionFour(d) ==
    LET self == set_attributes(DeclaredAttributes, d)
    IN  [delta_os_max |-> self.delta_os_max.value,
         ahu_min_oa_dpr |-> self.ahu_min_oa_dpr.value,
         troubleshoot_mode |-> Truth(self.troubleshoot_mode)]

\* FaultConditionFour(dict_), before any data is read
InitFrom(dicts) ==
    /\ df = EmptyTable
    /\ dict_ \in dicts
    /\ cfg = FaultConditionFour(dict_)
    /\ hooked = FALSE
    /\ result = NoResult
    /\ pc = "loading"
    /\ err = "none"
    /\ df_in = EmptyTable
    /\ workers = <<>>

InitFC4(minvals, tsvals) == InitFrom(Configs(minvals, tsvals))

IdleFC4 ==
    /\ df = EmptyTable
    /\ cfg = [delta_os_max |-> 0, ahu_min_oa_dpr |-> 0,
              troubleshoot_mode |-> FALSE]
    /\ result = NoResult
    /\ pc = "idle"
    /\ err = "none"
    /\ df_in = EmptyTable
    /\ workers = <<>>
    /\ dict_ = <<>>
    /\ hooked = FALSE

IdleFC23 ==
    /\ df23 = <<>>
    /\ thres = [mix |-> 0, ret |-> 0, out |-> 0]
    /\ df2 = <<>>
    /\ pc23 = "idle"

\* the brick/SQLite example and the report classes are not run
IdleBrick == brick = [pc |-> "idle"]

IdleReport == report = [pc |-> "idle"]

\* the classifier on tables whose rows take every signal value
Init == InitFC4(MinOaDprVals, {FALSE}) /\ IdleFC23 /\ IdleBrick /\ IdleReport

Next ==
    \/ ReadRow /\ UNCHANGED <<fc23vars, brick, report>>
    \/ Apply /\ UNCHANGED <<fc23vars, brick, report>>

Spec == Init /\ [][Next]_vars

\* the hourly counter on tables of several rows and hours
InitHourly == InitFC4({0, 5}, {FALSE}) /\ IdleFC23 /\ IdleBrick /\ IdleReport

NextHourly ==
    \/ ReadHourlyRow /\ UNCHANGED <<fc23vars, brick, report>>
    \/ Apply /\ UNCHANGED <<fc23vars, brick, report>>
    \/ ReApply /\ UNCHANGED <<fc23vars, brick, report>>

SpecHourly == InitHourly /\ [][NextHourly]_vars

\* apply on tables with a defect, with and without troubleshoot mode
InitCheck == InitFC4({0, 5}, BOOLEAN) /\ IdleFC23 /\ IdleBrick /\ IdleReport

NextCheck ==
    \/ ReadCheckedRow /\ UNCHANGED <<fc23vars, brick, report>>
    \/ Damage /\ UNCHANGED <<fc23vars, brick, report>>
    \/ Apply /\ UNCHANGED <<fc23vars, brick, report>>

SpecCheck == InitCheck /\ [][NextCheck]_vars

(***************************************************************************)
(* apply on a table that carries, beside the four signal columns, the 0/1  *)
(* flag column a sibling rule appended earlier in the batch.               *)
(***************************************************************************)
\* largest number of rows of a table with a sibling's flag column
MaxExtraRows == 2

sibling_flag_col == "fc1_flag"

ReadExtraRow == ReadInto(HourlyRows, MaxExtraRows)

\* a sibling rule ran first: df["fc1_flag"] = (...).astype(int)
AppendSiblingFlag ==
    /\ pc = "loading"
    /\ NRows(df) > 0
    /\ \E f \in [1 .. NRows(df) -> {0, 1}] :
          df' = [index |-> df.index,
                 cols |-> [c \in (DOMAIN df.cols) \cup {sibling_flag_col} |->
                             IF c = sibling_flag_col THEN f ELSE df.cols[c]],
                 ints |-> df.ints \cup {sibling_flag_col}]
    /\ pc' = "extended"
    /\ UNCHANGED <<cfg, result, err, df_in, workers, dict_, hooked>>

InitExtra == InitFC4({0, 5}, {FALSE}) /\ IdleFC23 /\ IdleBrick /\ IdleReport

NextExtra ==
    \/ ReadExtraRow /\ UNCHANGED <<fc23vars, brick, report>>
    \/ AppendSiblingFlag /\ UNCHANGED <<fc23vars, brick, report>>
    \/ Apply /\ UNCHANGED <<fc23vars, brick, report>>

SpecExtra == InitExtra /\ [][NextExtra]_vars

(***************************************************************************)
(* Instances built from configurations with and without an entry for       *)
(* troubleshoot mode.                                                      *)
(***************************************************************************)
\* configurations that leave the troubleshoot-mode entry out
DictsWithoutTroubleshoot ==
    [delta_os_max : DeltaOsMaxVals, ahu_min_oa_dpr : {0, 5}]

InitDefault ==
    /\ InitFrom(DictsWithoutTroubleshoot \cup Configs({0, 5}, BOOLEAN))
    /\ IdleFC23 /\ IdleBrick /\ IdleReport

NextDefault ==
    \/ ReadCheckedRow /\ UNCHANGED <<fc23vars, brick, report>>
    \/ Apply /\ UNCHANGED <<fc23vars, brick, report>>

SpecDefault == InitDefault /\ [][NextDefault]_vars

(***************************************************************************)
(* Two FaultConditionFour instances applied to one shared table by two     *)
(* threads. A thread is switched between statements: each assignment of a  *)
(* mode column is a step, and so is df.astype(int), which reads the shared *)
(* table into a new one; the count and the flag then work on that copy.    *)
(* The validation loop only reads the table and is part of the first step. *)
(***************************************************************************)
\* largest number of rows of the shared table
MaxSharedRows == 2

Workers == {1, 2}

ReadSharedRow == ReadInto(HourlyRows, MaxSharedRows)

\* the two calls of apply begin
StartBatch ==
    /\ pc = "loading"
    /\ pc' = "batch"
    /\ df_in' = df
    /\ UNCHANGED <<df, cfg, result, err, workers, dict_, hooked>>

\* the statement of apply worker w executes at position at, on the shared df
ModeStep(w, at, next, column) ==
    /\ pc = "batch"
    /\ workers[w].pc = at
    /\ df' = SetColumn(df, at, column)
    /\ workers' = [workers EXCEPT ![w].pc = next]
    /\ UNCHANGED <<cfg, result, pc, err, df_in, dict_, hooked>>

SetHeating(w) ==
    ModeStep(w, "heating_mode", "econ_only_cooling_mode",
             [i \in 1 .. NRows(df) |-> heating_mode(df, workers[w].cfg, i)])

SetEconOnly(w) ==
    ModeStep(w, "econ_only_cooling_mode", "econ_plus_mech_cooling_mode",
             [i \in 1 .. NRows(df) |->
                econ_only_cooling_mode(df, workers[w].cfg, i)])

SetEconPlusMech(w) ==
    ModeStep(w, "econ_plus_mech_cooling_mode", "mech_cooling_only_mode",
             [i \in 1 .. NRows(df) |->
                econ_plus_mech_cooling_mode(df, workers[w].cfg, i)])

SetMechOnly(w) ==
    ModeStep(w, "mech_cooling_only_mode", "astype",
             [i \in 1 .. NRows(df) |->
                mech_cooling_only_mode(df, workers[w].cfg, i)])

\* lines 79-83: the shared table is read, the hourly table returned
CountAndReturn(w) ==
    /\ pc = "batch"
    /\ workers[w].pc = "astype"
    /\ workers' = [workers EXCEPT
                     ![w].pc = "returned",
                     ![w].result = HourlyTable(df, workers[w].cfg)]
    /\ UNCHANGED <<df, cfg, result, pc, err, df_in, dict_, hooked>>

InitBatch ==
    /\ df = EmptyTable
    /\ cfg = [delta_os_max |-> 0, ahu_min_oa_dpr |-> 0,
              troubleshoot_mode |-> FALSE]
    /\ result = NoResult
    /\ pc = "loading"
    /\ err = "none"
    /\ df_in = EmptyTable
    /\ dict_ = <<>>
    /\ hooked = FALSE
    /\ \E c1, c2 \in Configs({0, 5}, {FALSE}) :
          /\ c1 # c2
          /\ workers = [w \in Workers |->
                          [cfg |-> IF w = 1 THEN c1 ELSE c2,
                           pc |-> "heating_mode", result |-> NoResult]]
    /\ IdleFC23 /\ IdleBrick /\ IdleReport

NextBatch ==
    \/ ReadSharedRow /\ UNCHANGED <<fc23vars, brick, report>>
    \/ StartBatch /\ UNCHANGED <<fc23vars, brick, report>>
    \/ \E w \in Workers : SetHeating(w) /\ UNCHANGED <<fc23vars, brick, report>>
    \/ \E w \in Workers : SetEconOnly(w) /\ UNCHANGED <<fc23vars, brick, report>>
    \/ \E w \in Workers : SetEconPlusMech(w) /\ UNCHANGED <<fc23vars, brick, report>>
    \/ \E w \in Workers : SetMechOnly(w) /\ UNCHANGED <<fc23vars, brick, report>>
    \/ \E w \in Workers : CountAndReturn(w) /\ UNCHANGED <<fc23vars, brick, report>>

SpecBatch == InitBatch /\ [][NextBatch]_vars

(***************************************************************************)
(* fc2_3.py: fault conditions two and three on mixed-air temperature.      *)
(* Temperatures and tolerances are whole degrees F.                        *)
(***************************************************************************)
\* largest number of rows of the table read by fc2_3.py
MaxRows23 == 2

\* the tolerances the script is run with
OUTDOOR_DEGF_ERR_THRES == 5
MIX_DEGF_ERR_THRES == 5
RETURN_DEGF_ERR_THRES == 2

\* tolerance settings: the script's own, and each tolerance set to zero
ThresConfigs ==
    [mix : {0, MIX_DEGF_ERR_THRES}, ret : {0, RETURN_DEGF_ERR_THRES},
     out : {0, OUTDOOR_DEGF_ERR_THRES}]

\* sensor rows of the input table
TempRows == [mat : {44, 45, 60, 75, 79, 80, 85}, rat : {72}, oat : {45, 55, 75}]

\* rows with a gap (NaN) in one sensor or in all three; without the gap the
\* first three would be flagged by fault condition 3, the next two by
\* fault condition 2
NaNTempRows ==
    {[mat |-> NaN, rat |-> 72, oat |-> 55],
     [mat |-> 85, rat |-> NaN, oat |-> 55],
     [mat |-> 85, rat |-> 72, oat |-> NaN],
     [mat |-> 44, rat |-> NaN, oat |-> 55],
     [mat |-> 44, rat |-> 72, oat |-> NaN],
     [mat |-> NaN, rat |-> NaN, oat |-> NaN]}

\* np.minimum, np.maximum: NaN when either argument is NaN
Minimum(a, b) ==
    IF a = NaN \/ b = NaN THEN NaN ELSE IF a < b THEN a ELSE b

Maximum(a, b) ==
    IF a = NaN \/ b = NaN THEN NaN ELSE IF a > b THEN a ELSE b

\* fault_condition_two_ with the mix tolerance subtracted, as in
\* fault_condition_three_
fault_condition_two__MixSubtracted(r) ==
    Lt(Minus(r.mat, r.mix_degf_err_thres),
       Minimum(Minus(r.rat, r.return_degf_err_thres),
               Minus(r.oat, r.outdoor_degf_err_thres)))

\* fault_condition_two_ with the comparison turned round (>)
fault_condition_two__Greater(r) ==
    Gt(Plus(r.mat, r.mix_degf_err_thres),
       Minimum(Minus(r.rat, r.return_degf_err_thres),
               Minus(r.oat, r.outdoor_degf_err_thres)))

fault_condition_two_(r) ==
    Lt(Plus(r.mat, r.mix_degf_err_thres),
       Minimum(Minus(r.rat, r.return_degf_err_thres),
               Minus(r.oat, r.outdoor_degf_err_thres)))

\* fault_condition_three_ with the return and outdoor tolerances exchanged
fault_condition_three__TolerancesSwapped(r) ==
    Gt(Minus(r.mat, r.mix_degf_err_thres),
       Maximum(Plus(r.rat, r.outdoor_degf_err_thres),
               Plus(r.oat, r.return_degf_err_thres)))

\* fault_condition_three_ with >= for >
fault_condition_three__NotStrict(r) ==
    Ge(Minus(r.mat, r.mix_degf_err_thres),
       Maximum(Plus(r.rat, r.return_degf_err_thres),
               Plus(r.oat, r.outdoor_degf_err_thres)))

\* fault_condition_three_ with the np.minimum of fault_condition_two_
fault_condition_three__Minimum(r) ==
    Gt(Minus(r.mat, r.mix_degf_err_thres),
       Minimum(Plus(r.rat, r.return_degf_err_thres),
               Plus(r.oat, r.outdoor_degf_err_thres)))

\* fault_condition_three_ written as ~(mat - mix <= maximum)
fault_condition_three__NotLessEqual(r) ==
    LET lhs == Minus(r.mat, r.mix_degf_err_thres)
        rhs == Maximum(Plus(r.rat, r.return_degf_err_thres),
                       Plus(r.oat, r.outdoor_degf_err_thres))
    IN  ~(Lt(lhs, rhs) \/ Eq(lhs, rhs))

fault_condition_three_(r) ==
    Gt(Minus(r.mat, r.mix_degf_err_thres),
       Maximum(Plus(r.rat, r.return_degf_err_thres),
               Plus(r.oat, r.outdoor_degf_err_thres)))

\* df['outdoor_degf_err_thres'] = ... : the parameters become columns
WithThresholds(r, th) ==
    [mat |-> r.mat, rat |-> r.rat, oat |-> r.oat,
     outdoor_degf_err_thres |-> th.out,
     mix_degf_err_thres |-> th.mix,
     return_degf_err_thres |-> th.ret]

\* df['fc2_flag'] = fault_condition_two_(df), df['fc3_flag'] = ...
WithFlags(r) ==
    [mat |-> r.mat, rat |-> r.rat, oat |-> r.oat,
     outdoor_degf_err_thres |-> r.outdoor_degf_err_thres,
     mix_degf_err_thres |-> r.mix_degf_err_thres,
     return_degf_err_thres |-> r.return_degf_err_thres,
     fc2_flag |-> fault_condition_two_(r),
     fc3_flag |-> fault_condition_three_(r)]

BoolToInt(b) == IF b THEN 1 ELSE 0

\* a row dropna() drops: some value of it is NaN
RowHasNaN(r) == r.mat = NaN \/ r.rat = NaN \/ r.oat = NaN

\* df.copy().dropna()
DropNa(rows) == SelectSeq(rows, LAMBDA r : ~RowHasNaN(r))

\* df2: the flags cast to int, the parameter columns dropped
ReportRow(r) ==
    [mat |-> r.mat, rat |-> r.rat, oat |-> r.oat,
     fc2_flag |-> BoolToInt(r.fc2_flag), fc3_flag |-> BoolToInt(r.fc3_flag)]

\* pd.read_csv(...).rolling('5T').mean(): one more row of the input table
ReadTempRow ==
    /\ pc23 = "loading"
    /\ Len(df23) < MaxRows23
    /\ \E r \in TempRows \cup NaNTempRows : df23' = Append(df23, r)
    /\ UNCHANGED <<thres, df2, pc23>>

\* the script from the parameter columns to df2
RunFc23 ==
    /\ pc23 = "loading"
    /\ df23' = [i \in 1 .. Len(df23) |-> WithFlags(WithThresholds(df23[i], thres))]
    /\ df2' = LET kept == DropNa(df23')
              IN  [i \in 1 .. Len(kept) |-> ReportRow(kept[i])]
    /\ pc23' = "done"
    /\ UNCHANGED thres

InitFC23 ==
    /\ IdleFC4
    /\ IdleBrick
    /\ IdleReport
    /\ df23 = <<>>
    /\ thres \in ThresConfigs
    /\ df2 = <<>>
    /\ pc23 = "loading"

NextFC23 ==
    \/ ReadTempRow /\ UNCHANGED <<fc4vars, brick, report>>
    \/ RunFc23 /\ UNCHANGED <<fc4vars, brick, report>>

SpecFC23 == InitFC23 /\ [][NextFC23]_vars

(***************************************************************************)
(* fc2_3.py: the statistics and the suggestion the script writes into its  *)
(* report. A percentage is held in hundredths of a percent (500 = 5.00 %). *)
(***************************************************************************)
\* round(num / den * 100, 2), in hundredths of a percent
PercentOf(num, den) == (2 * 10000 * num + den) \div (2 * den)

\* round(df2.<flag>.mean() * 100, 2): the mean of no rows is NaN
percent_true(rows, flag) ==
    IF Len(rows) = 0 THEN NaN
    ELSE PercentOf(Cardinality({i \in 1 .. Len(rows) : rows[i][flag] = 1}),
                   Len(rows))

\* if percent_true_fc2 < 5 or percent_true_fc3 < 5: ... else: ...
suggestion(p2, p3) ==
    IF Lt(p2, 500) \/ Lt(p3, 500) THEN "high_out_of_calibration"
    ELSE "low_within_calibration"

\* the statistics and the 'Suggestions based on data analysis' paragraph
WriteSuggestions ==
    /\ pc23 = "done"
    /\ report.pc = "idle"
    /\ \E p2 \in {percent_true(df2, "fc2_flag")},
          p3 \in {percent_true(df2, "fc3_flag")} :
          report' = [pc |-> "written", percent_true_fc2 |-> p2,
                     percent_true_fc3 |-> p3, suggestion |-> suggestion(p2, p3)]
    /\ UNCHANGED fc23vars

InitFC23Report == InitFC23

NextFC23Report ==
    \/ ReadTempRow /\ UNCHANGED <<fc4vars, brick, report>>
    \/ RunFc23 /\ UNCHANGED <<fc4vars, brick, report>>
    \/ WriteSuggestions /\ UNCHANGED <<fc4vars, brick>>

SpecFC23Report == InitFC23Report /\ [][NextFC23Report]_vars

(***************************************************************************)
(* fc3.py: the script that runs fault condition 3 through the class        *)
(* FaultConditionThree. The class binds its first three positional         *)
(* arguments to the mix, return and outdoor tolerance, in that order (the  *)
(* order the unit test constructs it with); its rule is the one            *)
(* fault_condition_three_ computes.                                        *)
(***************************************************************************)
\* FaultConditionThree(a1, a2, a3, ...): the tolerances of the instance
FaultConditionThree(a1, a2, a3) == [mix |-> a1, ret |-> a2, out |-> a3]

\* the instance fc3.py builds
fc3_instance ==
    FaultConditionThree(OUTDOOR_DEGF_ERR_THRES, MIX_DEGF_ERR_THRES,
                        RETURN_DEGF_ERR_THRES)

\* the instance the unit test builds
test_fc3_instance ==
    FaultConditionThree(MIX_DEGF_ERR_THRES, RETURN_DEGF_ERR_THRES,
                        OUTDOOR_DEGF_ERR_THRES)

\* _fc3.apply(df) on one row
WithFc3Flag(r) ==
    [mat |-> r.mat, rat |-> r.rat, oat |-> r.oat,
     outdoor_degf_err_thres |-> r.outdoor_degf_err_thres,
     mix_degf_err_thres |-> r.mix_degf_err_thres,
     return_degf_err_thres |-> r.return_degf_err_thres,
     fc3_flag |-> fault_condition_three_(r)]

\* df["fc3_flag"] = _fc3.apply(df); df2 = df.copy().dropna()
RunFc3 ==
    /\ pc23 = "loading"
    /\ df23' = [i \in 1 .. Len(df23) |->
                  WithFc3Flag(WithThresholds(df23[i], thres))]
    /\ df2' = DropNa(df23')
    /\ pc23' = "done"
    /\ UNCHANGED thres

InitFc3Script ==
    /\ IdleFC4
    /\ IdleBrick
    /\ IdleReport
    /\ df23 = <<>>
    /\ thres = fc3_instance
    /\ df2 = <<>>
    /\ pc23 = "loading"

NextFc3Script ==
    \/ ReadTempRow /\ UNCHANGED <<fc4vars, brick, report>>
    \/ RunFc3 /\ UNCHANGED <<fc4vars, brick, report>>

SpecFc3Script == InitFc3Script /\ [][NextFc3Script]_vars

(***************************************************************************)
(* examples/brick_model_and_sqlite/3_run_query_fc1_brick.py: main.         *)
(* A table is held as the set of its column names; the sensors the SPARQL  *)
(* query finds and the sensors the database has rows for are the inputs.   *)
(***************************************************************************)
\* the sensor types the SPARQL query filters on
SensorTypes ==
    {"Supply_Air_Static_Pressure_Sensor", "Supply_Air_Static_Pressure_Setpoint",
     "Supply_Fan_VFD_Speed_Sensor"}

PERCENTAGE_COLS_TO_CONVERT == {"Supply_Fan_VFD_Speed_Sensor"}

\* the columns config_dict names for fault condition 1
Fc1Cols ==
    {"Supply_Air_Static_Pressure_Sensor", "Supply_Air_Static_Pressure_Setpoint",
     "Supply_Fan_VFD_Speed_Sensor"}

\* Python's None, and a table with the given columns
None == [is_none |-> TRUE, columns |-> {}]

Table(columns) == [is_none |-> FALSE, columns |-> columns]

\* combine_dataframes(dfs)
combine_dataframes(dfs) == IF dfs = {} THEN None ELSE Table(dfs)

\* Steps 1-4: the graph is loaded and queried, the database is opened
Connect ==
    /\ brick.pc = "load"
    /\ brick' = [brick EXCEPT !.pc = "retrieve", !.conn = "open"]

\* Step 5: retrieve_timeseries_data keeps the sensors that have rows
Retrieve ==
    /\ brick.pc = "retrieve"
    /\ brick' = [brick EXCEPT !.pc = "combine",
                              !.dfs = brick.sensor_data \cap brick.with_rows]

\* Step 6: df_combined = combine_dataframes(dfs)
Combine ==
    /\ brick.pc = "combine"
    /\ brick' = [brick EXCEPT !.pc = "print",
                              !.df_combined = combine_dataframes(brick.dfs)]

\* line 155: print(df_combined.columns)
PrintColumns ==
    /\ brick.pc = "print"
    /\ brick' = IF brick.df_combined.is_none
                THEN [brick EXCEPT !.pc = "raised", !.err = "AttributeError"]
                ELSE [brick EXCEPT !.pc = "test"]

\* line 157 and Step 7: convert_floats divides the percentage columns
ConvertFloats ==
    /\ brick.pc = "test"
    /\ brick' =
         IF brick.df_combined.is_none
         THEN [brick EXCEPT !.pc = "close"]
         ELSE IF ~(PERCENTAGE_COLS_TO_CONVERT \subseteq brick.df_combined.columns)
         THEN [brick EXCEPT !.pc = "raised", !.err = "KeyError"]
         ELSE [brick EXCEPT !.pc = "fc1", !.converted = TRUE]

\* Step 8: run_fault_one; the rule needs the columns it is configured with
RunFaultOne ==
    /\ brick.pc = "fc1"
    /\ brick' =
         IF ~(Fc1Cols \subseteq brick.df_combined.columns)
         THEN [brick EXCEPT !.pc = "raised", !.err = "MissingColumnError"]
         ELSE [brick EXCEPT
                 !.pc = "update", !.evaluated = TRUE,
                 !.df_combined =
                     Table(brick.df_combined.columns \cup {"fc1_flag"})]

\* Step 9: update_fault_flags_in_db
UpdateDb ==
    /\ brick.pc = "update"
    /\ brick' = [brick EXCEPT !.pc = "close", !.db_updated = TRUE]

\* line 170: conn.close()
CloseConn ==
    /\ brick.pc = "close"
    /\ brick' = [brick EXCEPT !.pc = "ended", !.conn = "closed"]

InitBrick ==
    /\ IdleFC4 /\ IdleFC23 /\ IdleReport
    /\ \E found \in SUBSET SensorTypes, rows \in SUBSET SensorTypes :
          brick = [pc |-> "load", sensor_data |-> found, with_rows |-> rows,
                   conn |-> "none", dfs |-> {}, df_combined |-> None,
                   converted |-> FALSE, evaluated |-> FALSE,
                   db_updated |-> FALSE, err |-> "none"]

NextBrick ==
    \/ Connect /\ UNCHANGED <<fc4vars, fc23vars, report>>
    \/ Retrieve /\ UNCHANGED <<fc4vars, fc23vars, report>>
    \/ Combine /\ UNCHANGED <<fc4vars, fc23vars, report>>
    \/ PrintColumns /\ UNCHANGED <<fc4vars, fc23vars, report>>
    \/ ConvertFloats /\ UNCHANGED <<fc4vars, fc23vars, report>>
    \/ RunFaultOne /\ UNCHANGED <<fc4vars, fc23vars, report>>
    \/ UpdateDb /\ UNCHANGED <<fc4vars, fc23vars, report>>
    \/ CloseConn /\ UNCHANGED <<fc4vars, fc23vars, report>>

SpecBrick == InitBrick /\ [][NextBrick]_vars

(***************************************************************************)
(* reports: summarize_fault_times and the sentences create_report writes.  *)
(* A timestamp is a whole number of hours, so a Timedelta divided by       *)
(* pd.Timedelta(hours=1) is the difference of two timestamps; NaT is held  *)
(* as NaN. Values rounded to two places are held in hundredths.            *)
(***************************************************************************)
\* largest number of rows of a table given to FaultCodeOneReport
MaxReportRows == 3

\* largest number of rows of a table given to FaultCodeSevenReport
MaxSevenRows == 2

\* timestamps of a table given to a report
ReportHours == 0 .. 2

RECURSIVE SumSkipNa(_, _)
\* Series.sum() of the first n values of x: NaN / NaT is skipped
SumSkipNa(x, n) ==
    IF n = 0 THEN 0
    ELSE (IF x[n] = NaN THEN 0 ELSE x[n]) + SumSkipNa(x, n - 1)

\* index.to_series().diff() taken forwards: row i gets t[i+1] - t[i]
IndexDiff_Forward(rows) ==
    [i \in 1 .. Len(rows) |->
        IF i = Len(rows) THEN NaN ELSE rows[i + 1].t - rows[i].t]

\* delta = df.index.to_series().diff(): the first row has NaT
IndexDiff(rows) ==
    [i \in 1 .. Len(rows) |-> IF i = 1 THEN NaN ELSE rows[i].t - rows[i - 1].t]

\* delta * df[col]: NaT stays NaT
Times(delta, rows, col) ==
    [i \in 1 .. Len(rows) |->
        IF delta[i] = NaN THEN NaN ELSE delta[i] * rows[i][col]]

\* round(num / den, 2) in hundredths, for num >= 0 and den > 0
Round2(num, den) == (2 * 100 * num + den) \div (2 * den)

\* round(df[col].where(df[flag] == 1).mean(), 2): NaN when no row is flagged
MeanWhereFlag(rows, col) ==
    LET on == {i \in 1 .. Len(rows) : rows[i].flag = 1}
        x == [i \in 1 .. Len(rows) |-> IF i \in on THEN rows[i][col] ELSE NaN]
    IN  IF on = {} THEN NaN
        ELSE Round2(SumSkipNa(x, Len(rows)), Cardinality(on))

\* FaultCodeOneReport.summarize_fault_times(df)
summarize_fault_times(rows) ==
    LET delta == IndexDiff(rows)
        total_hours == SumSkipNa(delta, Len(rows))
        percent == percent_true(rows, "flag")
    IN  [total_days |-> Round2(total_hours, 24),
         total_hours |-> total_hours,
         hours_fc1_mode |-> SumSkipNa(Times(delta, rows, "flag"), Len(rows)),
         percent_true |-> percent,
         percent_false |-> Minus(10000, percent),
         flag_true_duct_static |-> MeanWhereFlag(rows, "duct_static")]

\* rows of a table with a duct static pressure column and the flag column
OneRows == [t : ReportHours, flag : {0, 1}, duct_static : {0, 1}]

\* the caller appends one more row; timestamps never decrease
ReadReportRow(rowset, max) ==
    /\ report.pc = "loading"
    /\ Len(report.rows) < max
    /\ \E r \in rowset :
          /\ Len(report.rows) > 0 => r.t >= report.rows[Len(report.rows)].t
          /\ report' = [report EXCEPT !.rows = Append(@, r)]

ReadOneRow == ReadReportRow(OneRows, MaxReportRows)

SummarizeOne ==
    /\ report.pc = "loading"
    /\ report' = [pc |-> "summarized", rows |-> report.rows,
                  summary |-> summarize_fault_times(report.rows)]

InitReportOne ==
    /\ IdleFC4 /\ IdleFC23 /\ IdleBrick
    /\ report = [pc |-> "loading", rows |-> <<>>]

NextReportOne ==
    \/ ReadOneRow /\ UNCHANGED <<fc4vars, fc23vars, brick>>
    \/ SummarizeOne /\ UNCHANGED <<fc4vars, fc23vars, brick>>

SpecReportOne == InitReportOne /\ [][NextReportOne]_vars

\* FaultCodeSevenReport.summarize_fault_times(df)
summarize_fault_times_seven(rows) ==
    LET delta == IndexDiff(rows)
        total_hours == SumSkipNa(delta, Len(rows))
        percent == percent_true(rows, "flag")
        motor_on == [i \in 1 .. Len(rows) |->
                       [motor_on |-> IF rows[i].fan_vfd_speed > 0 THEN 1 ELSE 0]]
    IN  [total_days |-> Round2(total_hours, 24),
         total_hours |-> total_hours,
         hours_fc7_mode |-> SumSkipNa(Times(delta, rows, "flag"), Len(rows)),
         percent_true |-> percent,
         percent_false |-> Minus(10000, percent),
         flag_true_satsp |-> MeanWhereFlag(rows, "sat"),
         flag_true_sat |-> MeanWhereFlag(rows, "satsp"),
         hours_motor_runtime |->
             100 * SumSkipNa(Times(delta, motor_on, "motor_on"), Len(rows)),
         df_motor_on_filtered |->
             SelectSeq(rows, LAMBDA r : r.fan_vfd_speed > 1)]

\* rows of a table given to the fault-code-7 report: supply air temperature
\* and setpoint in deg F, fan speed in tenths
SevenRows ==
    [t : ReportHours, flag : {0, 1}, sat : {55, 60}, satsp : {55, 65},
     fan_vfd_speed : {0, 10}]

ReadSevenRow == ReadReportRow(SevenRows, MaxSevenRows)

\* FaultCodeSevenReport.create_report: the statistics, the note on a fan that
\* never stops and the sentence on the averages while the fault is true
CreateReportSeven ==
    /\ report.pc = "loading"
    /\ Len(report.rows) > 0
    /\ \E s \in {summarize_fault_times_seven(report.rows)} :
          report' =
            [pc |-> "written", rows |-> report.rows, summary |-> s,
             runs_24_7 |-> (s.total_hours = s.hours_motor_runtime \div 100),
             sentence |->
               IF \E i \in 1 .. Len(report.rows) : report.rows[i].flag # 0
               THEN [kind |-> "averages", setpoint |-> s.flag_true_satsp,
                     temperature |-> s.flag_true_sat]
               ELSE [kind |-> "no_faults", setpoint |-> NaN,
                     temperature |-> NaN]]

InitReportSeven ==
    /\ IdleFC4 /\ IdleFC23 /\ IdleBrick
    /\ report = [pc |-> "loading", rows |-> <<>>]

NextReportSeven ==
    \/ ReadSevenRow /\ UNCHANGED <<fc4vars, fc23vars, brick>>
    \/ CreateReportSeven /\ UNCHANGED <<fc4vars, fc23vars, brick>>

SpecReportSeven == InitReportSeven /\ [][NextReportSeven]_vars

(***************************************************************************)
(* Properties of the operating-mode classifier (specification Spec)        *)
(***************************************************************************)
Done == pc = "done"

\* the modes row i of the caller's table is classified in, after apply
ModesTrue(i) == {m \in ModeNames : df.cols[m][i]}

Sig(col, i) == df.cols[col][i]

\* C1: for every row and every configured ahu_min_oa_dpr, at most one of the
\* four mode indicators computed by apply is true.
C1_AtMostOneMode ==
    Done => \A i \in 1 .. NRows(df) : Cardinality(ModesTrue(i)) <= 1

\* C1 witness: apply has classified a row in the econ+mech cooling mode
C1_Witness ==
    /\ Done
    /\ \E i \in 1 .. NRows(df) : ModesTrue(i) = {"econ_plus_mech_cooling_mode"}

\* C5: a row with heating > 0, cooling == 0, fan > 0 and economizer signal
\* equal to ahu_min_oa_dpr is in heating mode and in no other mode.
C5_HeatingRowIsHeatingOnly ==
    Done =>
        \A i \in 1 .. NRows(df) :
            ( /\ Sig(heating_sig_col, i) > 0
              /\ Sig(cooling_sig_col, i) = 0
              /\ Sig(supply_vfd_speed_col, i) > 0
              /\ Sig(economizer_sig_col, i) = cfg.ahu_min_oa_dpr )
            => ModesTrue(i) = {"heating_mode"}

\* C5 witness: apply has run on a row heating at half, cooling shut, fan
\* running, damper at a non-zero minimum position
C5_Witness ==
    /\ Done
    /\ cfg.ahu_min_oa_dpr = 5
    /\ \E i \in 1 .. NRows(df) :
          /\ Sig(heating_sig_col, i) = 5
          /\ Sig(cooling_sig_col, i) = 0
          /\ Sig(supply_vfd_speed_col, i) = 5
          /\ Sig(economizer_sig_col, i) = 5

\* C6: a row whose fan speed is not greater than 0, and a row whose heating
\* and cooling signals are both greater than 0, is in none of the four modes.
C6_FanOffOrBothValvesUnclassified ==
    Done =>
        \A i \in 1 .. NRows(df) :
            ( \/ Sig(supply_vfd_speed_col, i) <= 0
              \/ (Sig(heating_sig_col, i) > 0 /\ Sig(cooling_sig_col, i) > 0) )
            => ModesTrue(i) = {}

\* C6 witness: apply has run on a row with the fan off whose other signals
\* would otherwise make it an economizer-only row
C6_Witness ==
    /\ Done
    /\ \E i \in 1 .. NRows(df) :
          /\ Sig(supply_vfd_speed_col, i) = 0
          /\ Sig(heating_sig_col, i) = 0
          /\ Sig(cooling_sig_col, i) = 0
          /\ Sig(economizer_sig_col, i) > cfg.ahu_min_oa_dpr

(***************************************************************************)
(* Properties of the hourly counter (specification SpecHourly)             *)
(***************************************************************************)
Flag(k) == result.cols["fc4_flag"][k]

Count(col, k) == result.cols[col][k]

\* rows of the caller's table in the hour of bucket k of the result
HourRows(k) == RowsOfHour(df, result.index[k])

\* rows of bucket k at which mode m is entered: the row is in m and the row
\* before it in the unresampled table (whatever its hour) is not
Entries(m, k) ==
    {i \in HourRows(k) : df.cols[m][i] /\ (i = 1 \/ ~df.cols[m][i - 1])}

\* C2: fc4_flag of an hour is 1 if and only if the largest of the four mode
\* columns' transition counts of that hour is greater than delta_os_max; no
\* other column decides the flag.
C2_FlagIffModeCountExceeds ==
    Done =>
        \A k \in 1 .. NRows(result) :
            (Flag(k) = 1) <=>
                (\E m \in ModeNames : Count(m, k) > cfg.delta_os_max)

\* C3: the count of a mode column in an hour is the number of rows of that
\* hour that are 1 and whose preceding row in the unresampled series (for the
\* first row of an hour: the last row of the hour before) is not 1.
C3_CountIsEdgesOfUnresampledSeries ==
    Done =>
        \A k \in 1 .. NRows(result) : \A m \in ModeNames :
            Count(m, k) = Cardinality(Entries(m, k))

\* bucket k has at least two rows, every row is a heating or an econ-only row
\* and each row's mode differs from the mode of the row before it in the hour
Alternates(k) ==
    /\ Cardinality(HourRows(k)) >= 2
    /\ \A i \in HourRows(k) :
          /\ df.cols["heating_mode"][i] \/ df.cols["econ_only_cooling_mode"][i]
          /\ (i - 1) \in HourRows(k) =>
                df.cols["heating_mode"][i] # df.cols["heating_mode"][i - 1]

\* C4: in an hour whose rows alternate between heating and econ-only, the
\* count of each of the two modes is the number of times the mode is entered
\* during the hour, and a count above delta_os_max sets the hour's flag.
C4_AlternatingHourCounted ==
    Done =>
        \A k \in 1 .. NRows(result) :
            Alternates(k) =>
                \A m \in {"heating_mode", "econ_only_cooling_mode"} :
                    /\ Count(m, k) = Cardinality(Entries(m, k))
                    /\ Count(m, k) > cfg.delta_os_max => Flag(k) = 1

\* C7: an hour all of whose rows are unclassified has fc4_flag 0, whatever
\* the signal columns hold.
C7_UnclassifiedHourNotFlagged ==
    Done =>
        \A k \in 1 .. NRows(result) :
            (\A i \in HourRows(k) : ModesTrue(i) = {}) => Flag(k) = 0

(***************************************************************************)
(* Properties of fault conditions two and three (specification SpecFC23)   *)
(***************************************************************************)
Done23 == pc23 = "done"

ScriptThres ==
    [mix |-> MIX_DEGF_ERR_THRES, ret |-> RETURN_DEGF_ERR_THRES,
     out |-> OUTDOOR_DEGF_ERR_THRES]

\* C8 as claimed: fault condition 3 flags every row with
\* mat > rat + return_tol and mat > oat + outdoor_tol.
C8_FlagsWhenMatAboveBothBounds ==
    Done23 =>
        \A i \in 1 .. Len(df2) :
            ( /\ df2[i].mat > df2[i].rat + thres.ret
              /\ df2[i].mat > df2[i].oat + thres.out )
            => df2[i].fc3_flag = 1

\* C8 amended: fault condition 3 flags every row with
\* mat - mix_tol > rat + return_tol and mat - mix_tol > oat + outdoor_tol.
C8_FlagsWhenMatLessMixTolAboveBothBounds ==
    Done23 =>
        \A i \in 1 .. Len(df2) :
            ( /\ df2[i].mat - thres.mix > df2[i].rat + thres.ret
              /\ df2[i].mat - thres.mix > df2[i].oat + thres.out )
            => df2[i].fc3_flag = 1

\* C8 witness: with the script's tolerances, a row whose mixed-air temperature
\* less 5 is above both bounds has been flagged
C8_Witness ==
    /\ Done23
    /\ thres = ScriptThres
    /\ \E i \in 1 .. Len(df2) :
          /\ df2[i].mat - 5 > df2[i].rat + 2
          /\ df2[i].mat - 5 > df2[i].oat + 5
          /\ df2[i].fc3_flag = 1

UpperBound(r) == Maximum(r.rat + thres.ret, r.oat + thres.out)

LowerBound(r) == Minimum(r.rat - thres.ret, r.oat - thres.out)

\* C9: the comparisons are strict. A row with mat - mix_tol equal to
\* max(rat + return_tol, oat + outdoor_tol) is not flagged by fault condition
\* 3 and a row with mat larger is; a row with mat + mix_tol equal to
\* min(rat - return_tol, oat - outdoor_tol) is not flagged by fault condition
\* 2 and a row with mat smaller is.
C9_StrictBoundaries ==
    Done23 =>
        \A i \in 1 .. Len(df2) :
            /\ df2[i].mat - thres.mix = UpperBound(df2[i]) => df2[i].fc3_flag = 0
            /\ df2[i].mat - thres.mix > UpperBound(df2[i]) => df2[i].fc3_flag = 1
            /\ df2[i].mat + thres.mix = LowerBound(df2[i]) => df2[i].fc2_flag = 0
            /\ df2[i].mat + thres.mix < LowerBound(df2[i]) => df2[i].fc2_flag = 1

\* C9 witness: the script has run on a table with a row exactly on the upper
\* bound and a row one degree above it
C9_Witness ==
    /\ Done23
    /\ thres.mix > 0
    /\ \E i, j \in 1 .. Len(df2) :
          /\ df2[i].mat - thres.mix = UpperBound(df2[i])
          /\ df2[j].mat - thres.mix = UpperBound(df2[j]) + 1

\* the two rows of the unit test
fail_row == [mat |-> 85, rat |-> 72, oat |-> 55]

pass_row == [mat |-> 60, rat |-> 72, oat |-> 45]

Temps(r) == [mat |-> r.mat, rat |-> r.rat, oat |-> r.oat]

RECURSIVE SumFc3(_)
SumFc3(rows) ==
    IF rows = <<>> THEN 0 ELSE Head(rows).fc3_flag + SumFc3(Tail(rows))

FailRows == {i \in 1 .. Len(df2) : Temps(df2[i]) = fail_row}

PassRows == {i \in 1 .. Len(df2) : Temps(df2[i]) = pass_row}

\* C10: with tolerances mix 5, return 2, outdoor 5 every row (85, 72, 55) is
\* flagged by fault condition 3 and every row (60, 72, 45) is not, wherever
\* it stands; over a table of these two kinds of row the mean of fc3_flag is
\* the fraction of rows of the first kind (so it is >= 0.89 when that
\* fraction is, and <= 0.11 when that fraction is).
C10_TestRowsFlagMean ==
    (Done23 /\ thres = [mix |-> 5, ret |-> 2, out |-> 5]) =>
        /\ \A i \in FailRows : df2[i].fc3_flag = 1
        /\ \A i \in PassRows : df2[i].fc3_flag = 0
        /\ FailRows \cup PassRows = 1 .. Len(df2) =>
              /\ SumFc3(df2) = Cardinality(FailRows)
              /\ 100 * Cardinality(FailRows) >= 89 * Len(df2)
                    => 100 * SumFc3(df2) >= 89 * Len(df2)
              /\ 100 * Cardinality(FailRows) <= 11 * Len(df2)
                    => 100 * SumFc3(df2) <= 11 * Len(df2)

\* C10 witness: the script has run with the test's tolerances on a table
\* that holds a row of each kind, the passing row first
C10_Witness ==
    /\ Done23
    /\ thres = [mix |-> 5, ret |-> 2, out |-> 5]
    /\ Len(df2) = 2
    /\ Temps(df2[1]) = pass_row
    /\ Temps(df2[2]) = fail_row

\* the mixed-air temperature of row r lies between its return-air and
\* outside-air temperatures
MatBetween(r) ==
    /\ Minimum(r.rat, r.oat) <= r.mat
    /\ r.mat <= Maximum(r.rat, r.oat)

\* C11: with tolerances that are not negative, a row whose mixed-air
\* temperature lies between the return-air and the outside-air temperature
\* is flagged by neither fault condition 2 nor fault condition 3.
C11_MatBetweenNotFlagged ==
    Done23 =>
        \A i \in 1 .. Len(df2) :
            MatBetween(df2[i]) => (df2[i].fc2_flag = 0 /\ df2[i].fc3_flag = 0)

\* C11 witness: the script has run without tolerances on a row whose
\* mixed-air temperature is strictly between the other two
C11_Witness ==
    /\ Done23
    /\ thres = [mix |-> 0, ret |-> 0, out |-> 0]
    /\ \E i \in 1 .. Len(df2) :
          /\ df2[i].oat < df2[i].mat
          /\ df2[i].mat < df2[i].rat

(***************************************************************************)
(* Properties of two concurrent calls of apply (specification SpecBatch)   *)
(***************************************************************************)
\* what apply with configuration c returns when it alone is applied to t
ReturnedAlone(t, c) == ApplyOutcome(t, c).result

\* C12: two instances with different configurations applied concurrently to
\* one shared table each return, in every interleaving, the hourly table
\* they return when applied alone.
C12_ConcurrentSameAsAlone ==
    \A w \in DOMAIN workers :
        workers[w].pc = "returned" =>
            workers[w].result = ReturnedAlone(df_in, workers[w].cfg)

(***************************************************************************)
(* Frame and repetition of apply (specification SpecHourly)                *)
(***************************************************************************)
Returned == pc \in {"done", "done2"}

C14_SecondApplySameFlags ==
    [][(pc = "done" /\ pc' # "done") =>
           /\ pc' = "done2"
           /\ result'.cols["fc4_flag"] = result.cols["fc4_flag"]]_vars

\* a second call has returned, with an hour flagged because of a mode count
\* alone
C14_Witness ==
    /\ pc = "done2"
    /\ \E k \in 1 .. NRows(result) :
          /\ Flag(k) = 1
          /\ \A c \in SignalCols : Count(c, k) <= cfg.delta_os_max

(***************************************************************************)
(* Defective input tables and the diagnostics hook (specification          *)
(* SpecCheck)                                                              *)
(***************************************************************************)
Ended == pc \in {"done", "error"}

\* the columns of columns_to_check that check_analog_pct rejects in table t
Rejected(t) ==
    {col \in SignalCols : check_analog_pct(t, col) # "none"}

\* C15: the four signal columns are validated before any mode indicator is
\* computed: when the validation of any of the four fails, apply ends with
\* that error, no mode column has been added to the caller's table and no
\* result table is returned.
C15_ValidationFailsBeforeModes ==
    (Ended /\ Rejected(df_in) # {}) =>
        /\ pc = "error"
        /\ err \in {check_analog_pct(df_in, col) : col \in Rejected(df_in)}
        /\ ModeNames \cap DOMAIN df.cols = {}
        /\ result = NoResult

\* apply ended on a supply fan speed outside [0, 1], the last column checked
C15_Witness ==
    /\ pc = "error"
    /\ err = "InvalidSignalRange"
    /\ Rejected(df_in) = {"supply_vfd_speed"}
    /\ NRows(df_in) > 0

NaNRows(t) ==
    {i \in 1 .. NRows(t) :
        \E col \in SignalCols \cap DOMAIN t.cols : t.cols[col][i] = NaN}

\* C17: a NaN in a signal column never makes apply raise; the affected row
\* is classified in no mode and causes no flag.
C17_NaNDoesNotRaise ==
    (Ended /\ NaNRows(df_in) # {}) =>
        /\ pc = "done"
        /\ err = "none"
        /\ \A i \in NaNRows(df_in) : ModesTrue(i) = {}

C18_NaNRowNotFlagged ==
    Done23 =>
        /\ \A i \in 1 .. Len(df23) :
              RowHasNaN(df23[i]) =>
                  (~df23[i].fc2_flag /\ ~df23[i].fc3_flag)
        /\ \A i \in 1 .. Len(df2) : ~RowHasNaN(df2[i])
        /\ Len(df2) = Cardinality({i \in 1 .. Len(df23) : ~RowHasNaN(df23[i])})

\* a run over a row with a NaN temperature and a row that is flagged
C18_Witness ==
    /\ Done23
    /\ \E i \in 1 .. Len(df23) : RowHasNaN(df23[i])
    /\ \E i \in 1 .. Len(df2) : df2[i].fc3_flag = 1

\* hours that have a row in the caller's table
HoursOf(t) == {t.index[i] : i \in 1 .. NRows(t)}

\* C20: the table apply returns has one row per hourly bucket, and its
\* columns are one integer transition-count column per operating mode plus
\* fc4_flag, whose value is always 0 or 1.
C20_ResultShape ==
    Done =>
        /\ NRows(result) = Cardinality(HoursOf(df))
        /\ {result.index[k] : k \in 1 .. NRows(result)} = HoursOf(df)
        /\ DOMAIN result.cols = ModeNames \cup {"fc4_flag"}
        /\ \A k \in 1 .. NRows(result) :
              /\ Flag(k) \in {0, 1}
              /\ \A m \in ModeNames : Count(m, k) \in Nat

\* the rows and the flag alone: one row per hourly bucket, fc4_flag 0 or 1
C20_RowsAndFlagRange ==
    Done =>
        /\ NRows(result) = Cardinality(HoursOf(df))
        /\ {result.index[k] : k \in 1 .. NRows(result)} = HoursOf(df)
        /\ \A k \in 1 .. NRows(result) : Flag(k) \in {0, 1}

(***************************************************************************)
(* apply on a table with a sibling's flag column (specification SpecExtra) *)
(***************************************************************************)
\* table t without the columns that are not configured signal columns
SignalsOnly(t) ==
    [index |-> t.index,
     cols |-> [c \in SignalCols |-> t.cols[c]],
     ints |-> t.ints \cap SignalCols]

\* C21: fc4_flag does not depend on columns other than the four configured
\* signal columns: a table with extra columns gives the fc4_flag the table
\* without them gives.
C21_FlagIgnoresExtraColumns ==
    Done =>
        result.cols["fc4_flag"] =
            ApplyOutcome(SignalsOnly(df_in), cfg).result.cols["fc4_flag"]

(***************************************************************************)
(* The default of troubleshoot mode (specification SpecDefault)            *)
(***************************************************************************)
\* C22: troubleshoot mode defaults to false: when the configuration has no
\* troubleshoot-mode entry, apply does not run the diagnostics hook.
C22_NoEntryNoHook ==
    (Ended /\ "troubleshoot_mode" \notin DOMAIN dict_) => ~hooked

(***************************************************************************)
(* The tolerances of the fc3.py script (specification SpecFc3Script)       *)
(***************************************************************************)
\* C23: the rule fc3.py runs has each tolerance in its named role: mix
\* tolerance MIX_DEGF_ERR_THRES, return tolerance RETURN_DEGF_ERR_THRES,
\* outdoor tolerance OUTDOOR_DEGF_ERR_THRES.
C23_TolerancesInNamedRoles ==
    Done23 =>
        /\ thres.mix = MIX_DEGF_ERR_THRES
        /\ thres.ret = RETURN_DEGF_ERR_THRES
        /\ thres.out = OUTDOOR_DEGF_ERR_THRES

\* the rows fc3.py flags are the rows the instance of the unit test flags
C23_SameFlagsAsTestInstance ==
    Done23 =>
        \A i \in 1 .. Len(df2) :
            df2[i].fc3_flag =
                fault_condition_three_(WithThresholds(df2[i], test_fc3_instance))

(***************************************************************************)
(* The brick/SQLite example without data (specification SpecBrick)         *)
(***************************************************************************)
BrickOver == brick.pc \in {"ended", "raised"}

\* C24: when no timeseries data is found for any sensor (combine_dataframes
\* returns None), main skips conversion, rule evaluation and the database
\* update, closes the database connection and ends without an error.
C24_NoDataEndsCleanly ==
    (BrickOver /\ brick.dfs = {}) =>
        /\ brick.pc = "ended"
        /\ brick.err = "none"
        /\ brick.conn = "closed"
        /\ ~brick.converted /\ ~brick.evaluated /\ ~brick.db_updated

(***************************************************************************)
(* The suggestion of the FC2/FC3 script (specification SpecFC23Report)     *)
(***************************************************************************)
\* C25: the script writes that the percent-true is high and the sensors are
\* out of calibration only when a fault percentage is above 5 %, and that
\* it is low and the sensors are within calibration otherwise.
C25_HighOnlyAboveFivePercent ==
    report.pc = "written" =>
        (report.suggestion = "high_out_of_calibration"
            <=> (Gt(report.percent_true_fc2, 500)
                 \/ Gt(report.percent_true_fc3, 500)))

(***************************************************************************)
(* Properties of the reports (specifications SpecReportOne,                *)
(* SpecReportSeven)                                                        *)
(***************************************************************************)
\* the intervals of the table that end at a flagged row
FlaggedIntervals(rows) ==
    [i \in 1 .. Len(rows) |->
        IF i >= 2 /\ rows[i].flag = 1 THEN rows[i].t - rows[i - 1].t ELSE 0]

\* C30: for a table with non-decreasing timestamps and a 0/1 flag column,
\* the hours with the flag true that summarize_fault_times reports lie
\* between 0 and the total hours it reports, and equal the sum of the
\* intervals that end at a flagged row (the first row's flag adds nothing).
C30_FlaggedHoursWithinTotal ==
    report.pc = "summarized" =>
        /\ 0 <= report.summary.hours_fc1_mode
        /\ report.summary.hours_fc1_mode <= report.summary.total_hours
        /\ report.summary.hours_fc1_mode =
               SumSkipNa(FlaggedIntervals(report.rows), Len(report.rows))

\* a summary of a table whose first row is flagged, with a flagged and an
\* unflagged interval after it
C30_Witness ==
    /\ report.pc = "summarized"
    /\ Len(report.rows) = 3
    /\ report.rows[1].flag = 1
    /\ report.rows[2].flag = 1 /\ report.rows[2].t > report.rows[1].t
    /\ report.rows[3].flag = 0 /\ report.rows[3].t > report.rows[2].t

\* C26: in the fault-code-7 report the value reported as the average supply
\* air setpoint while the fault is true is the mean of the setpoint column
\* over the flagged rows, and the value reported as the average supply air
\* temperature is the mean of the supply air temperature column over them.
C26_ReportedAveragesOfNamedColumns ==
    (report.pc = "written" /\ report.sentence.kind = "averages") =>
        /\ report.sentence.setpoint = MeanWhereFlag(report.rows, "satsp")
        /\ report.sentence.temperature = MeanWhereFlag(report.rows, "sat")

(***************************************************************************)
(* Fault conditions 2 and 3 together (specification SpecFC23)              *)
(***************************************************************************)
\* C27: for non-negative tolerances no row is flagged by both fault
\* condition 2 (mixed air too low) and fault condition 3 (mixed air too
\* high).
C27_NeverBothFlags ==
    Done23 =>
        /\ thres.mix >= 0 /\ thres.ret >= 0 /\ thres.out >= 0
        /\ \A i \in 1 .. Len(df23) : ~(df23[i].fc2_flag /\ df23[i].fc3_flag)
        /\ \A i \in 1 .. Len(df2) : df2[i].fc2_flag + df2[i].fc3_flag <= 1

\* a run in which one row is flagged by fault condition 2 and another by
\* fault condition 3
C27_Witness ==
    /\ Done23
    /\ \E i \in 1 .. Len(df2) : df2[i].fc2_flag = 1
    /\ \E i \in 1 .. Len(df2) : df2[i].fc3_flag = 1

(***************************************************************************)
(* Bounds on the hourly counts (specification SpecHourly)                  *)
(***************************************************************************)
\* the sum of the four mode counts of bucket k
ModeCountSum(k) ==
    Count("heating_mode", k) + Count("econ_only_cooling_mode", k)
        + Count("econ_plus_mech_cooling_mode", k)
        + Count("mech_cooling_only_mode", k)

\* C28: in every hourly bucket apply returns, the four mode counts sum to at
\* most the number of input rows of that hour, and each mode's count is at
\* most half that number, rounded up.
C28_CountsBoundedByRows ==
    Returned =>
        \A k \in 1 .. NRows(result) :
            /\ ModeCountSum(k) <= Cardinality(HourRows(k))
            /\ \A m \in ModeNames :
                  Count(m, k) <= (Cardinality(HourRows(k)) + 1) \div 2

\* an hour of three rows in which both bounds are met: three mode entries,
\* two of them into the same mode
C28_Witness ==
    /\ Done
    /\ \E k \in 1 .. NRows(result) :
          /\ Cardinality(HourRows(k)) = 3
          /\ ModeCountSum(k) = 3
          /\ \E m \in ModeNames : Count(m, k) = 2

(***************************************************************************)
(* The rows the classifier leaves out (specification Spec)                 *)
(***************************************************************************)
\* row i has the fan running and not both valves open
RunningNotBothValves(i) ==
    /\ Sig("supply_vfd_speed", i) > 0
    /\ ~(Sig("heating_sig", i) > 0 /\ Sig("cooling_sig", i) > 0)

\* row i is one of the three kinds of row the claim lists as unclassified
ListedUnclassified(i) ==
    \/ Sig("economizer_sig", i) < cfg.ahu_min_oa_dpr
    \/ (Sig("heating_sig", i) > 0
            /\ Sig("economizer_sig", i) > cfg.ahu_min_oa_dpr)
    \/ (Sig("heating_sig", i) = 0 /\ Sig("cooling_sig", i) = 0
            /\ Sig("economizer_sig", i) = cfg.ahu_min_oa_dpr)

\* C29: among rows with supply fan speed > 0 and not both heating and
\* cooling > 0, the unclassified rows are exactly those with economizer
\* signal below ahu_min_oa_dpr, those with heating > 0 and economizer signal
\* above it, and those with heating == 0, cooling == 0 and economizer signal
\* equal to it; every other such row is in exactly one mode.
C29_UnclassifiedRowsAreTheListed ==
    Done =>
        \A i \in 1 .. NRows(df) :
            RunningNotBothValves(i) =>
                /\ ListedUnclassified(i) <=> ModesTrue(i) = {}
                /\ ~ListedUnclassified(i) => Cardinality(ModesTrue(i)) = 1

\* a row with the fan running, the heating valve open and the damper above
\* its minimum, left unclassified
C29_Witness ==
    /\ Done
    /\ \E i \in 1 .. NRows(df) :
          /\ Sig("supply_vfd_speed", i) > 0
          /\ Sig("heating_sig", i) > 0 /\ Sig("cooling_sig", i) = 0
          /\ Sig("economizer_sig", i) > cfg.ahu_min_oa_dpr
          /\ ModesTrue(i) = {}

====
